---- MODULE Spec2Model ----
(***************************************************************************)
(* A model of the Estonian Presidio API server (src/app.py) and of its     *)
(* EstBERT recognizer and configuration validator                          *)
(* (src/presidio_flask_estbert.py).                                        *)
(*                                                                         *)
(* Python strings that the code inspects character by character (the raw   *)
(* model labels) are sequences of one-character strings. A Python value    *)
(* whose shape the code does not check (the parsed configuration, a JSON   *)
(* body) carries its shape, so that an operation applied to a value of the *)
(* wrong shape raises as it does in Python. An exception is the string     *)
(* str(e) gives; "" stands for no exception.                               *)
(*                                                                         *)
(* The engines of presidio, the model pipeline, Flask and PyYAML are the   *)
(* environment: what they return or raise is chosen among the outcomes     *)
(* listed with each.                                                       *)
(***************************************************************************)
EXTENDS Integers, Sequences, FiniteSets, TLC

VARIABLES
    \* EstBERTRecognizer.analyze: the last call
    rc_pc,          \* "idle" | "done"
    rc_pipeline,    \* what self.nlp_pipeline(text) did: [raised, ner_results]
    rc_entities,    \* the entities argument (requested types)
    rc_out,         \* [results, propagated]: what the call gave its caller
    \* EstonianPresidioFlaskServer
    sv_phase,       \* "start" | "serving" | "failed" (construction raised)
    cfg_file,       \* the content of the file at config_path
    config,         \* self.config
    vc_out,         \* what validate_config returned during construction
    sv_pc,          \* "idle" | "responded"
    req,            \* the request being answered
    ext,            \* what the analyzer engine did when the handler called it
    analyzer_entities,  \* the entities argument the handler gave the analyzer
    operators,      \* the operators argument the handler gave the anonymizer
    resp,           \* the response to req
    prev,           \* the response delivered before it
    \* The server run threaded (app.run(threaded=True))
    threads,        \* of each thread: the request it handles, the handler's
                    \* position and its local variables
    rc_label_mapping    \* self.label_mapping of the registered recognizer

rc_vars == <<rc_pc, rc_pipeline, rc_entities, rc_out>>

sv_vars == <<sv_phase, cfg_file, config, vc_out, sv_pc, req, ext,
             analyzer_entities, operators, resp, prev>>

th_vars == <<threads, rc_label_mapping>>

vars == <<rc_pc, rc_pipeline, rc_entities, rc_out,
          sv_phase, cfg_file, config, vc_out, sv_pc, req, ext,
          analyzer_entities, operators, resp, prev, threads, rc_label_mapping>>

\* ------------------------------------------------------------------------
\* Bounds

\* Longest sequence of raw spans the model pipeline returns.
MaxSpans == 3

\* Threads that handle requests at the same time.
NumThreads == 2

\* ------------------------------------------------------------------------
\* Labels and entity types, as character sequences

PER == <<"P", "E", "R">>
ORG == <<"O", "R", "G">>
LOC == <<"L", "O", "C">>
MISC == <<"M", "I", "S", "C">>
B_PER == <<"B", "-">> \o PER
I_ORG == <<"I", "-">> \o ORG
B_ONLY == <<"B", "-">>
SUB_ORG == <<"S", "U", "B", "-">> \o ORG

PERSON == <<"P", "E", "R", "S", "O", "N">>
ORGANIZATION == <<"O", "R", "G", "A", "N", "I", "Z", "A", "T", "I", "O", "N">>
LOCATION == <<"L", "O", "C", "A", "T", "I", "O", "N">>

\* EstBERTRecognizer.ENTITIES
ENTITIES == {PERSON, ORGANIZATION, LOCATION}

\* self.label_mapping
label_mapping == [l \in {PER, ORG, LOC} |->
                    IF l = PER THEN PERSON
                    ELSE IF l = ORG THEN ORGANIZATION
                    ELSE LOCATION]

\* dict.get(key, default)
LabelMappingGet(key, default) ==
    IF key \in DOMAIN label_mapping THEN label_mapping[key] ELSE default

\* str.replace(old, ""): every non-overlapping occurrence of old, scanning
\* from the left, is removed, wherever in s it stands.
RECURSIVE StrRemove(_, _)
StrRemove(s, old) ==
    IF Len(s) < Len(old) THEN s
    ELSE IF SubSeq(s, 1, Len(old)) = old
         THEN StrRemove(SubSeq(s, Len(old) + 1, Len(s)), old)
         ELSE <<Head(s)>> \o StrRemove(Tail(s), old)

\* entity['entity_group'].replace('B-', '').replace('I-', '')
StripPrefix(label) == StrRemove(StrRemove(label, <<"B", "-">>), <<"I", "-">>)

\* The entity type of a raw label: stripped, then mapped, an absent label
\* passing through.
MappedType(label) == LabelMappingGet(StripPrefix(label), StripPrefix(label))

\* ------------------------------------------------------------------------
\* Raw spans. keys is the set of keys the dict holds; reading another key
\* raises KeyError. Scores are in hundredths.

SpanKeys == {"entity_group", "start", "end", "score"}

RawSpan(label, start, end, score, keys) ==
    [entity_group |-> label, start |-> start, end |-> end, score |-> score,
     keys |-> keys]

HasKey(entity, k) == k \in entity.keys

\* RecognizerResult(entity_type=..., start=..., end=..., score=...): the
\* constructor stores its arguments as given.
RecognizerResult(entity_type, start, end, score) ==
    [entity_type |-> entity_type, start |-> start, end |-> end, score |-> score]

\* `presidio_entity and presidio_entity in entities`
RetainedAcceptAll(presidio_entity, entities) ==
    entities = {} \/ presidio_entity \in entities

Retained(presidio_entity, entities) ==
    presidio_entity # <<>> /\ presidio_entity \in entities

\* The for loop of analyze from raw span i on. error: an exception left the
\* loop (a KeyError of a missing key), and results holds what had been
\* appended before it.
RECURSIVE AnalyzeLoop(_, _, _, _)
AnalyzeLoop(ner_results, i, entities, results) ==
    IF i > Len(ner_results) THEN [results |-> results, error |-> FALSE]
    ELSE LET entity == ner_results[i] IN
         IF ~HasKey(entity, "entity_group")
         THEN [results |-> results, error |-> TRUE]
         ELSE LET presidio_entity == MappedType(entity.entity_group) IN
              IF Retained(presidio_entity, entities)
              THEN IF ~({"start", "end", "score"} \subseteq entity.keys)
                   THEN [results |-> results, error |-> TRUE]
                   ELSE AnalyzeLoop(ner_results, i + 1, entities,
                            Append(results,
                                   RecognizerResult(presidio_entity, entity.start,
                                                    entity.end, entity.score)))
              ELSE AnalyzeLoop(ner_results, i + 1, entities, results)

\* The body of the try block: the pipeline call, then the loop.
AnalyzeBody(pipeline, entities) ==
    IF pipeline.raised THEN [results |-> <<>>, error |-> TRUE]
    ELSE AnalyzeLoop(pipeline.ner_results, 1, entities, <<>>)

\* try: ... except Exception: print(...); return results
AnalyzeNoExcept(pipeline, entities) ==
    LET body == AnalyzeBody(pipeline, entities) IN
    [results |-> IF body.error THEN <<>> ELSE body.results,
     propagated |-> body.error]

analyze(pipeline, entities) ==
    LET body == AnalyzeBody(pipeline, entities) IN
    [results |-> body.results, propagated |-> FALSE]

\* ------------------------------------------------------------------------
\* The inputs of the recognizer

RawSpanChoices ==
    {RawSpan(l, 0, 4, 90, SpanKeys) : l \in {PER, B_PER, I_ORG, LOC, MISC, B_ONLY, SUB_ORG}}
    \cup {RawSpan(PER, 5, 2, 90, SpanKeys),
          RawSpan(LOC, 0, 4, 150, SpanKeys),
          RawSpan(PER, 0, 4, 90, SpanKeys \ {"entity_group"}),
          RawSpan(LOC, 0, 4, 90, SpanKeys \ {"start"}),
          RawSpan(ORG, 0, 4, 90, SpanKeys \ {"score"})}

RECURSIVE SeqsUpTo(_, _)
SeqsUpTo(S, n) ==
    IF n = 0 THEN {<<>>}
    ELSE LET shorter == SeqsUpTo(S, n - 1) IN
         shorter \cup {Append(s, x) : s \in shorter, x \in S}

PipelineOutcomes ==
    {[raised |-> TRUE, ner_results |-> <<>>]}
    \cup {[raised |-> FALSE, ner_results |-> s] : s \in SeqsUpTo(RawSpanChoices, MaxSpans)}

RequestedTypes ==
    {{}, {PERSON}, {LOCATION}, {PERSON, LOCATION}, {PERSON, ORGANIZATION, LOCATION},
     {PERSON, MISC}, {ORGANIZATION, <<>>}, {ORGANIZATION, SUB_ORG}}

\* ------------------------------------------------------------------------
\* Recognizer specification

\* One call of EstBERTRecognizer.analyze(text, entities)
RecognizerAnalyze ==
    /\ rc_pc = "idle"
    /\ \E p \in PipelineOutcomes, e \in RequestedTypes :
        /\ rc_pc' = "done"
        /\ rc_pipeline' = p
        /\ rc_entities' = e
        /\ rc_out' = analyze(p, e)
    /\ UNCHANGED sv_vars
    /\ UNCHANGED th_vars

\* The caller takes the returned list; the recognizer keeps nothing of the call.
RecognizerReturn ==
    /\ rc_pc = "done"
    /\ rc_pc' = "idle"
    /\ rc_pipeline' = [raised |-> FALSE, ner_results |-> <<>>]
    /\ rc_entities' = {}
    /\ rc_out' = [results |-> <<>>, propagated |-> FALSE]
    /\ UNCHANGED sv_vars
    /\ UNCHANGED th_vars

\* ------------------------------------------------------------------------
\* Claims about EstBERTRecognizer.analyze

\* The call has returned and the pipeline had returned its raw spans.
RcReturnedSpans == rc_pc = "done" /\ ~rc_pipeline.raised

AllKeys(entity) == SpanKeys \subseteq entity.keys

\* The span analyze makes of a raw span.
SpanOf(entity) ==
    [entity_type |-> MappedType(entity.entity_group), start |-> entity.start,
     end |-> entity.end, score |-> entity.score]

SpansOf(raw) == [i \in 1..Len(raw) |-> SpanOf(raw[i])]

\* The raw spans whose mapped type is a member of the requested types.
RequestedOf(raw, entities) ==
    LET Test(e) == MappedType(e.entity_group) \in entities IN SelectSeq(raw, Test)

\* The raw spans whose mapped type is a non-empty member of the requested types.
NonEmptyRequestedOf(raw, entities) ==
    LET Test(e) == /\ MappedType(e.entity_group) # <<>>
                   /\ MappedType(e.entity_group) \in entities
    IN SelectSeq(raw, Test)

\* A raw span at which reading a key fails: it has no entity_group, or it
\* passes the filter and has no start, end or score.
ReadFails(entity, entities) ==
    \/ "entity_group" \notin entity.keys
    \/ /\ MappedType(entity.entity_group) # <<>>
       /\ MappedType(entity.entity_group) \in entities
       /\ ~AllKeys(entity)

\* The raw spans before the first one at which reading a key fails.
ReadablePrefix(raw, entities) ==
    LET bad == {i \in 1..Len(raw) : ReadFails(raw[i], entities)}
        first == IF bad = {} THEN Len(raw) + 1
                 ELSE CHOOSE i \in bad : \A j \in bad : i <= j
    IN SubSeq(raw, 1, first - 1)

Malformed(entity) ==
    \/ ~AllKeys(entity)
    \/ entity.start > entity.end
    \/ entity.score < 0
    \/ entity.score > 100

WellFormedRequestedOf(raw, entities) ==
    LET Test(e) == ~Malformed(e) /\ MappedType(e.entity_group) \in entities
    IN SelectSeq(raw, Test)

\* C2: analyze skips exactly the malformed raw spans and returns a span for
\* every well-formed raw span whose mapped type is requested, those after a
\* malformed one included. Stated for requested types that are non-empty
\* and hold no empty type.
C2_MalformedSkipped ==
    (RcReturnedSpans /\ rc_entities # {} /\ <<>> \notin rc_entities)
    => rc_out.results =
         SpansOf(WellFormedRequestedOf(rc_pipeline.ner_results, rc_entities))

\* C3: when the pipeline call raises, analyze does not propagate the
\* exception and returns the empty list.
C3_PipelineRaiseCaught ==
    (rc_pc = "done" /\ rc_pipeline.raised)
    => (~rc_out.propagated /\ rc_out.results = <<>>)

\* A call, with some types requested, in which the pipeline raised.
C3_Witness == rc_pc = "done" /\ rc_pipeline.raised /\ rc_entities # {}

\* C9: the entity type of every returned span is a member of ENTITIES.
C9_OnlyDeclaredEntities ==
    rc_pc = "done"
    => \A i \in 1..Len(rc_out.results) : rc_out.results[i].entity_type \in ENTITIES

\* A label without its leading positional marker, if it has one.
LeadingMarkerRemoved(label) ==
    IF Len(label) >= 2 /\ SubSeq(label, 1, 2) \in {<<"B", "-">>, <<"I", "-">>}
    THEN SubSeq(label, 3, Len(label))
    ELSE label

\* The entity type of a raw label when only a leading marker is removed.
LeadingMarkerType(label) ==
    LabelMappingGet(LeadingMarkerRemoved(label), LeadingMarkerRemoved(label))

\* The raw spans retained when their type is LeadingMarkerType of the label.
LeadingMarkerSpansOf(raw, entities) ==
    LET Test(e) == /\ LeadingMarkerType(e.entity_group) # <<>>
                   /\ LeadingMarkerType(e.entity_group) \in entities
        kept == SelectSeq(raw, Test)
    IN [i \in 1..Len(kept) |->
            [entity_type |-> LeadingMarkerType(kept[i].entity_group),
             start |-> kept[i].start, end |-> kept[i].end, score |-> kept[i].score]]

\* C11: the entity type analyze assigns to a raw label is the label without
\* a leading B- or I-, looked up in label_mapping, a label absent from the
\* mapping passing through unchanged, no other character of the label being
\* altered: the returned spans are the raw spans whose type so obtained is
\* requested, with that type. Stated for raw spans that all carry their
\* four keys.
C11_LeadingMarkerOnly ==
    (RcReturnedSpans /\ \A i \in 1..Len(rc_pipeline.ner_results) :
                            AllKeys(rc_pipeline.ner_results[i]))
    => rc_out.results = LeadingMarkerSpansOf(rc_pipeline.ner_results, rc_entities)

\* ------------------------------------------------------------------------
\* The configuration file

\* required_sections, in the order validate_config looks for them
required_sections == <<"supported_languages", "nlp_configuration", "estbert_configuration">>

RequiredNames == {required_sections[i] : i \in 1..Len(required_sections)}

\* The content of the file at config_path.
\*   kind: "missing" (no such file), "unparsable" (yaml.safe_load raises), or
\*     the Python value yaml.safe_load returns: "none" (an empty document),
\*     "int", "str", "list", "dict";
\*   names: the required section names s for which `s in config` is true: keys
\*     of a dict, elements of a list, substrings of a str;
\*   the other fields: the shape of the value under that key of a dict
\*     ("absent": no such key; supported_languages "set": a YAML !!set, which
\*     jsonify cannot serialize).
ConfigFile(kind, names, langs, etd, anon, custom) ==
    [kind |-> kind, names |-> names, supported_languages |-> langs,
     entities_to_detect |-> etd, anonymization_config |-> anon,
     custom_recognizers |-> custom]

PlainFile(kind, names) == ConfigFile(kind, names, "absent", "absent", "absent", "absent")

NoConfig == PlainFile("unset", {})

\* The value of entities_to_detect in the configurations that set a list.
CfgEntities == <<"PERSON", "IBAN_CODE">>

\* The value of anonymization_config.default_operators where it is a mapping.
CfgDefaultOperators ==
    [t \in {"PERSON", "LOCATION"} |-> IF t = "PERSON" THEN "[ISIK]" ELSE "[ASUKOHT]"]

\* str(e) of the exceptions the code can meet
E_FileNotFound == "[Errno 2] No such file or directory"
E_YamlError == "while parsing a block mapping"
E_NotIterable == "argument of type 'NoneType' is not iterable"
E_IntNotIterable == "argument of type 'int' is not iterable"
E_StrIndices == "string indices must be integers"
E_ListIndices == "list indices must be integers or slices, not str"
E_BadRequest == "400 Bad Request: The browser (or proxy) sent a request that this server could not understand."
E_NotFound == "404 Not Found: The requested URL was not found on the server."
E_NoRecognizers == "No matching recognizers were found to serve the request."
E_EngineFailure == "CUDA out of memory"
E_StrNoGet == "'str' object has no attribute 'get'"
E_ListNoItems == "'list' object has no attribute 'items'"
E_SetNotSerializable == "Object of type set is not JSON serializable"

\* The body of validate_config's try block. exc: str(e) of the exception that
\* left it ("" when none did).
ValidateBody(file) ==
    IF file.kind = "missing"
    THEN [exc |-> E_FileNotFound, is_valid |-> FALSE, prefix |-> "", detail |-> ""]
    ELSE IF file.kind = "unparsable"
    THEN [exc |-> E_YamlError, is_valid |-> FALSE, prefix |-> "", detail |-> ""]
    ELSE IF file.kind = "none"
    THEN [exc |-> E_NotIterable, is_valid |-> FALSE, prefix |-> "", detail |-> ""]
    ELSE IF file.kind = "int"
    THEN [exc |-> E_IntNotIterable, is_valid |-> FALSE, prefix |-> "", detail |-> ""]
    ELSE LET missing == {i \in 1..Len(required_sections) :
                            required_sections[i] \notin file.names}
         IN IF missing = {}
            THEN [exc |-> "", is_valid |-> TRUE,
                  prefix |-> "Configuration is valid", detail |-> ""]
            ELSE [exc |-> "", is_valid |-> FALSE,
                  prefix |-> "Missing required section: ",
                  detail |-> required_sections[CHOOSE i \in missing :
                                                 \A j \in missing : i <= j]]

\* validate_config(config_path): (is_valid, prefix + detail), or the
\* exception it lets out.
validate_config(file) ==
    LET body == ValidateBody(file) IN
    IF body.exc # ""
    THEN [raised |-> FALSE, is_valid |-> FALSE,
          prefix |-> "Configuration error: ", detail |-> body.exc]
    ELSE [raised |-> FALSE, is_valid |-> body.is_valid,
          prefix |-> body.prefix, detail |-> body.detail]

NotValidated == [raised |-> FALSE, is_valid |-> FALSE, prefix |-> "", detail |-> ""]

\* load_presidio_from_config(config_path) returns an analyzer: config[...] of
\* a value that is no dict raises, and so may the libraries that build the
\* engines (libs_ok: they do not).
LoadSucceeds(file, libs_ok) == file.kind = "dict" /\ libs_ok

\* _initialize_engines: whether it returns (the server can serve) or raises.
InitializeEngines(file, libs_ok) ==
    LET v == validate_config(file) IN
    [validation |-> v,
     ok |-> ~v.raised /\ v.is_valid /\ LoadSucceeds(file, libs_ok)]

\* The files the model starts from.
ConfigFiles ==
    {PlainFile(k, {}) : k \in {"missing", "unparsable", "none", "int"}}
    \cup {PlainFile(k, n) : k \in {"str", "list"}, n \in SUBSET RequiredNames}
    \cup {ConfigFile("dict", n, IF "supported_languages" \in n THEN "list" ELSE "absent",
                     "absent", "absent", "absent") : n \in SUBSET RequiredNames}
    \cup {ConfigFile("dict", RequiredNames, "list", etd, anon, "absent") :
            etd \in {"absent", "null", "list"},
            anon \in {"absent", "str", "dict_without_defaults",
                      "dict_defaults_dict", "dict_defaults_list"}}
    \cup {ConfigFile("dict", RequiredNames, "list", "absent", "dict_defaults_dict", c) :
            c \in {"list_of_dicts", "list_of_str"}}
    \cup {ConfigFile("dict", RequiredNames, "set", "absent", "absent", "absent")}

\* ------------------------------------------------------------------------
\* Requests and responses

\* A value that may be absent, None, or a list or dict.
Opt(st, val) == [st |-> st, val |-> val]
Absent == Opt("absent", <<>>)
Null == Opt("null", <<>>)
Val(v) == Opt("val", v)
NotCalled == Opt("not_called", <<>>)

\* Python truth of a value that is absent (None), None, or a list or dict.
Truthy(o) == o.st = "val" /\ DOMAIN o.val # {}

\* A request. is_json: request.is_json (the content type says JSON);
\* json: what the body parses to ("invalid": it does not parse);
\* has_text: `"text" in data` (a key of an object, an element of a list, a
\* substring of a string); entities, anonymizers: data.get(...) of an object.
Req(endpoint, is_json, json, has_text, entities, anonymizers) ==
    [endpoint |-> endpoint, is_json |-> is_json, json |-> json,
     has_text |-> has_text, entities |-> entities, anonymizers |-> anonymizers]

Get(endpoint) == Req(endpoint, FALSE, "none", FALSE, Absent, Absent)

NoReq == Get("none")

\* One entry of the request's anonymizers: a dict whose keys type and
\* new_value may be absent.
Entry(type, new_value) == [type |-> type, new_value |-> new_value]

\* dict.get(key, default) of a key whose value is v ("absent": no such key)
DictGet(v, default) == IF v = "absent" THEN default ELSE v

Resp(status, prefix, detail) == [status |-> status, prefix |-> prefix, detail |-> detail]

NoResp == Resp(0, "", "")

\* What the analyzer engine does when called: str(e) of what it raises (""
\* when it returns) and the entity types of the spans it returns.
Ext(raises, detected) == [raises |-> raises, detected |-> detected]

NoExt == Ext("", <<>>)

ExtChoices ==
    {Ext("", <<>>), Ext("", <<"PERSON", "LOCATION", "ORGANIZATION">>),
     Ext(E_NoRecognizers, <<>>), Ext(E_EngineFailure, <<>>)}

\* What a view function did: the exception that left it (exc, "" when it
\* returned; http_code: the code of an HTTPException, else 0), the response
\* it returned, and what it passed to the engines.
View(exc, http_code, r, called, entities, ops) ==
    [exc |-> exc, http_code |-> http_code, resp |-> r, called |-> called,
     analyzer_entities |-> entities, operators |-> ops]

Raises(exc, called, entities) == View(exc, 0, NoResp, called, entities, <<>>)

Returns(r, called, entities, ops) == View("", 0, r, called, entities, ops)

\* try: ... except Exception as e: return jsonify(error=prefix + str(e)), 500
Caught(view, prefix) ==
    IF view.exc # ""
    THEN [view EXCEPT !.exc = "", !.http_code = 0, !.resp = Resp(500, prefix, view.exc)]
    ELSE view

\* handle_http_exception and handle_generic_exception: what Flask answers
\* when a view function (or the routing) raises.
ErrorHandlers(view) ==
    IF view.exc = "" THEN view.resp
    ELSE IF view.http_code # 0 THEN Resp(view.http_code, view.exc, "")
    ELSE Resp(500, "Internal server error", "")

\* The default entity lists of the two handlers
ANALYZE_DEFAULT_ENTITIES ==
    <<"PERSON", "LOCATION", "ORGANIZATION", "PHONE_NUMBER", "EMAIL_ADDRESS", "URL",
      "IP_ADDRESS", "IBAN_CODE", "DATE_TIME", "CRYPTO", "CREDIT_CARD">>

ANONYMIZE_DEFAULT_ENTITIES ==
    <<"PERSON", "ORGANIZATION", "LOCATION", "DATE_TIME", "EMAIL_ADDRESS",
      "PHONE_NUMBER", "URL", "IP_ADDRESS">>

\* self.config.get('entities_to_detect', default)
ConfigGetEntities(cfg, default) ==
    IF cfg.entities_to_detect = "absent" THEN Val(default)
    ELSE IF cfg.entities_to_detect = "null" THEN Null
    ELSE Val(CfgEntities)

\* entities or self.config.get('entities_to_detect', default)
EntitiesToDetect(entities, cfg, default) ==
    IF Truthy(entities) THEN entities ELSE ConfigGetEntities(cfg, default)

\* The start of both POST handlers: is_json, get_json, the text field.
\* status 0: the handler goes on.
ParseRequest(r) ==
    IF ~r.is_json THEN [exc |-> "", status |-> 400, error |-> "Request must be JSON"]
    ELSE IF r.json = "invalid" THEN [exc |-> E_BadRequest, status |-> 0, error |-> ""]
    ELSE IF r.json = "null" THEN [exc |-> E_NotIterable, status |-> 0, error |-> ""]
    ELSE IF r.json = "number" THEN [exc |-> E_IntNotIterable, status |-> 0, error |-> ""]
    ELSE IF ~r.has_text
         THEN [exc |-> "", status |-> 400, error |-> "Missing required field: text"]
    ELSE IF r.json = "string" THEN [exc |-> E_StrIndices, status |-> 0, error |-> ""]
    ELSE IF r.json = "list" THEN [exc |-> E_ListIndices, status |-> 0, error |-> ""]
    ELSE [exc |-> "", status |-> 0, error |-> ""]

\* The body of analyze's try block
AnalyzeView(r, cfg, e) ==
    LET p == ParseRequest(r) IN
    IF p.exc # "" THEN Raises(p.exc, FALSE, NotCalled)
    ELSE IF p.status # 0 THEN Returns(Resp(p.status, p.error, ""), FALSE, NotCalled, <<>>)
    ELSE LET entities_to_detect ==
                 EntitiesToDetect(r.entities, cfg, ANALYZE_DEFAULT_ENTITIES)
         IN IF e.raises # "" THEN Raises(e.raises, TRUE, entities_to_detect)
            ELSE Returns(Resp(200, "", ""), TRUE, entities_to_detect, <<>>)

\* OperatorConfig(operator_name, params)
OperatorConfig(operator_name, params) ==
    [operator_name |-> operator_name, params |-> params]

\* The operator the handler makes of one entry of the request's anonymizers
RequestOperator(entity_type, c) ==
    LET operator_type == DictGet(c.type, "replace") IN
    OperatorConfig(operator_type,
        IF operator_type = "replace"
        THEN [new_value |-> DictGet(c.new_value, "<" \o entity_type \o ">")]
        ELSE IF operator_type = "mask"
        THEN [masking_char |-> "*", chars_to_mask |-> "4", from_end |-> "True"]
        ELSE [k \in {} |-> ""])

\* self.config.get('anonymization_config', {}).get('default_operators', {}),
\* then .items() of it
DefaultAnonymizers(cfg) ==
    IF cfg.anonymization_config = "str" THEN [exc |-> E_StrNoGet, val |-> <<>>]
    ELSE IF cfg.anonymization_config = "dict_defaults_list"
    THEN [exc |-> E_ListNoItems, val |-> <<>>]
    ELSE IF cfg.anonymization_config = "dict_defaults_dict"
    THEN [exc |-> "", val |-> CfgDefaultOperators]
    ELSE [exc |-> "", val |-> <<>>]

\* The operators of the request laid over the configuration's defaults.
BuildOperatorsMerged(anonymizers, cfg) ==
    LET d == DefaultAnonymizers(cfg)
        mine == IF Truthy(anonymizers) THEN DOMAIN anonymizers.val ELSE {}
    IN IF d.exc # "" THEN [exc |-> d.exc, operators |-> <<>>]
       ELSE [exc |-> "",
             operators |-> [t \in mine \cup DOMAIN d.val |->
                 IF t \in mine THEN RequestOperator(t, anonymizers.val[t])
                 ELSE OperatorConfig("replace", [new_value |-> d.val[t]])]]

\* "Setup anonymization operators": the operators dict the handler builds
BuildOperators(anonymizers, cfg) ==
    IF Truthy(anonymizers)
    THEN [exc |-> "",
          operators |-> [t \in DOMAIN anonymizers.val |->
                            RequestOperator(t, anonymizers.val[t])]]
    ELSE LET d == DefaultAnonymizers(cfg) IN
         IF d.exc # "" THEN [exc |-> d.exc, operators |-> <<>>]
         ELSE [exc |-> "",
               operators |-> [t \in DOMAIN d.val |->
                                 OperatorConfig("replace", [new_value |-> d.val[t]])]]

\* The body of anonymize's try block
AnonymizeView(r, cfg, e) ==
    LET p == ParseRequest(r) IN
    IF p.exc # "" THEN Raises(p.exc, FALSE, NotCalled)
    ELSE IF p.status # 0 THEN Returns(Resp(p.status, p.error, ""), FALSE, NotCalled, <<>>)
    ELSE LET entities_to_detect ==
                 EntitiesToDetect(r.entities, cfg, ANONYMIZE_DEFAULT_ENTITIES)
         IN IF e.raises # "" THEN Raises(e.raises, TRUE, entities_to_detect)
            ELSE LET b == BuildOperators(r.anonymizers, cfg) IN
                 IF b.exc # "" THEN Raises(b.exc, TRUE, entities_to_detect)
                 ELSE Returns(Resp(200, "", ""), TRUE, entities_to_detect, b.operators)

\* The operator the anonymizer engine applies to a span of entity type t
\* given the operators dict: the entry of t, else its replacement by "<t>".
EngineOperator(ops, t) ==
    IF t \in DOMAIN ops THEN ops[t]
    ELSE OperatorConfig("replace", [new_value |-> "<" \o t \o ">"])

\* health_check: jsonify of the dict that holds supported_languages
HealthCheckView(cfg) ==
    IF cfg.supported_languages = "set" THEN Raises(E_SetNotSerializable, FALSE, NotCalled)
    ELSE Returns(Resp(200, "", ""), FALSE, NotCalled, <<>>)

\* The body of get_configuration's try block
GetConfigurationView(cfg) ==
    IF cfg.custom_recognizers = "list_of_str" THEN Raises(E_StrNoGet, FALSE, NotCalled)
    ELSE IF cfg.supported_languages = "set"
    THEN Raises(E_SetNotSerializable, FALSE, NotCalled)
    ELSE Returns(Resp(200, "", ""), FALSE, NotCalled, <<>>)

\* The body of the try block of recognizers and of supported_entities
RegistryView(e) ==
    IF e.raises # "" THEN Raises(e.raises, TRUE, NotCalled)
    ELSE Returns(Resp(200, "", ""), TRUE, NotCalled, <<>>)

\* ------------------------------------------------------------------------
\* The requests the model sends

JsonBodies(endpoint, anonymizerChoices) ==
    {Req(endpoint, FALSE, "none", FALSE, Absent, Absent)}
    \cup {Req(endpoint, TRUE, j, FALSE, Absent, Absent) : j \in {"invalid", "null", "number"}}
    \cup {Req(endpoint, TRUE, j, t, Absent, Absent) : j \in {"string", "list"}, t \in BOOLEAN}
    \cup {Req(endpoint, TRUE, "object", t, en, an) :
            t \in BOOLEAN,
            en \in {Absent, Val(<<>>), Val(<<"PERSON">>), Val(<<"PERSON", "LOCATION">>)},
            an \in anonymizerChoices}

AnonymizerChoices ==
    {Absent,
     Val(<<>>),
     Val([t \in {"PERSON"} |-> Entry("replace", "[ISIK]")]),
     Val([t \in {"PERSON"} |-> Entry("mask", "absent")]),
     Val([t \in {"LOCATION"} |-> Entry("redact", "absent")]),
     Val([t \in {"PERSON", "ORGANIZATION"} |->
            IF t = "PERSON" THEN Entry("absent", "absent") ELSE Entry("replace", "[ASUTUS]")])}

\* ------------------------------------------------------------------------
\* The threads of the server

Threads == 1..NumThreads

\* A thread: pc is the handler's position, req the request it was given,
\* ext what the analyzer engine did when the handler called it, and
\* analyzer_entities, operators and resp the handler's local variables
\* entities_to_detect and operators and the response it returns.
Thread(pc, r, e, entities, ops, response) ==
    [pc |-> pc, req |-> r, ext |-> e, analyzer_entities |-> entities,
     operators |-> ops, resp |-> response]

\* A thread that handles no request
NoThread == Thread("idle", NoReq, NoExt, NotCalled, <<>>, NoResp)

\* ------------------------------------------------------------------------
\* The server

\* The server before construction, the file at config_path being any of
\* ConfigFiles
InitServer ==
    /\ sv_phase = "start" /\ cfg_file \in ConfigFiles /\ config = NoConfig
    /\ vc_out = NotValidated /\ prev = [endpoint |-> "none", resp |-> NoResp]
    /\ sv_pc = "idle" /\ req = NoReq /\ ext = NoExt /\ analyzer_entities = NotCalled
    /\ operators = <<>> /\ resp = NoResp
    /\ rc_pc = "idle" /\ rc_pipeline = [raised |-> FALSE, ner_results |-> <<>>]
    /\ rc_entities = {} /\ rc_out = [results |-> <<>>, propagated |-> FALSE]
    /\ threads = [t \in Threads |-> NoThread] /\ rc_label_mapping = label_mapping

\* EstonianPresidioFlaskServer(config_path)
Construct ==
    /\ sv_phase = "start"
    /\ \E libs_ok \in BOOLEAN :
        LET i == InitializeEngines(cfg_file, libs_ok) IN
        /\ vc_out' = i.validation
        /\ sv_phase' = IF i.ok THEN "serving" ELSE "failed"
        /\ config' = IF i.ok THEN cfg_file ELSE NoConfig
    /\ UNCHANGED <<cfg_file, sv_pc, req, ext, analyzer_entities, operators, resp, prev>>
    /\ UNCHANGED rc_vars
    /\ UNCHANGED th_vars

\* The server is up and between requests.
Ready == sv_phase = "serving" /\ sv_pc = "idle"

\* The server answers request r, its view function having done view.
Respond(r, view, e) ==
    /\ sv_pc' = "responded"
    /\ req' = r
    /\ ext' = IF view.called THEN e ELSE NoExt
    /\ analyzer_entities' = view.analyzer_entities
    /\ operators' = view.operators
    /\ resp' = ErrorHandlers(view)
    /\ UNCHANGED <<sv_phase, cfg_file, config, vc_out, prev>>
    /\ UNCHANGED rc_vars
    /\ UNCHANGED th_vars

\* GET /
Route_health_check ==
    /\ Ready
    /\ Respond(Get("/"), HealthCheckView(config), NoExt)

\* POST /analyze
Route_analyze ==
    /\ Ready
    /\ \E r \in JsonBodies("/analyze", {Absent}), e \in ExtChoices :
        Respond(r, Caught(AnalyzeView(r, config, e), "Analysis failed: "), e)

\* POST /anonymize
Route_anonymize ==
    /\ Ready
    /\ \E r \in JsonBodies("/anonymize", AnonymizerChoices), e \in ExtChoices :
        Respond(r, Caught(AnonymizeView(r, config, e), "Anonymization failed: "), e)

\* GET /recognizers
Route_recognizers ==
    /\ Ready
    /\ \E e \in {x \in ExtChoices : x.detected = <<>>} :
        Respond(Get("/recognizers"),
                Caught(RegistryView(e), "Failed to get recognizers: "), e)

\* GET /supportedentities
Route_supported_entities ==
    /\ Ready
    /\ \E e \in {x \in ExtChoices : x.detected = <<>>} :
        Respond(Get("/supportedentities"),
                Caught(RegistryView(e), "Failed to get supported entities: "), e)

\* GET /config
Route_get_configuration ==
    /\ Ready
    /\ Respond(Get("/config"),
            Caught(GetConfigurationView(config), "Failed to get configuration: "), NoExt)

\* A request to a path that has no route: the routing raises NotFound.
Route_unknown ==
    /\ Ready
    /\ Respond(Get("/unknown"), View(E_NotFound, 404, NoResp, FALSE, NotCalled, <<>>), NoExt)

\* The response is sent; the server keeps nothing of the request.
Deliver ==
    /\ sv_pc = "responded"
    /\ prev' = [endpoint |-> req.endpoint, resp |-> resp]
    /\ sv_pc' = "idle"
    /\ req' = NoReq
    /\ ext' = NoExt
    /\ analyzer_entities' = NotCalled
    /\ operators' = <<>>
    /\ resp' = NoResp
    /\ UNCHANGED <<sv_phase, cfg_file, config, vc_out>>
    /\ UNCHANGED rc_vars
    /\ UNCHANGED th_vars

SvNext ==
    \/ Construct
    \/ Route_health_check
    \/ Route_analyze
    \/ Route_anonymize
    \/ Route_recognizers
    \/ Route_supported_entities
    \/ Route_get_configuration
    \/ Route_unknown
    \/ Deliver

\* ------------------------------------------------------------------------
\* Claims about validate_config

\* The required sections the file holds: keys of its top-level mapping.
FileSections(file) == IF file.kind = "dict" THEN file.names ELSE {}

\* The file exists and parses.
Parsed(file) == file.kind \in {"none", "int", "str", "list", "dict"}

\* C4: validate_config never raises; of a parsed file it returns True exactly
\* when the three sections are present, and when one is absent it returns
\* False with a message that contains the name of an absent section.
C4_ValidateConfig ==
    sv_phase # "start"
    => /\ ~vc_out.raised
       /\ Parsed(cfg_file)
          => /\ vc_out.is_valid <=> (RequiredNames \subseteq FileSections(cfg_file))
             /\ (RequiredNames \ FileSections(cfg_file)) # {}
                => /\ ~vc_out.is_valid
                   /\ \E sec \in RequiredNames \ FileSections(cfg_file) :
                        vc_out.detail = sec

\* ------------------------------------------------------------------------
\* Claims about the handlers

Responded == sv_phase = "serving" /\ sv_pc = "responded"

\* A client input error of the two POST handlers: a body that is not JSON,
\* that does not parse, that is no object, or an object without text.
ClientInputError(r) ==
    /\ r.endpoint \in {"/analyze", "/anonymize"}
    /\ (~r.is_json \/ r.json # "object" \/ ~r.has_text)

\* C5: every client input error of POST /analyze and POST /anonymize is
\* answered 400, never 500, and a body that is not JSON is answered
\* {"error": "Request must be JSON"}.
C5_ClientErrors400 ==
    (Responded /\ ClientInputError(req))
    => /\ resp.status = 400
       /\ ~req.is_json => (resp.prefix = "Request must be JSON" /\ resp.detail = "")

\* C6: two requests to the same endpoint that both end in HTTP 500 receive the
\* same response body, whatever the exceptions were.
C6_Generic500 ==
    (Responded /\ resp.status = 500 /\ prev.resp.status = 500
        /\ prev.endpoint = req.endpoint)
    => resp = prev.resp

\* POST /anonymize has been answered 200.
Anonymized == Responded /\ req.endpoint = "/anonymize" /\ resp.status = 200

HasRequestEntry(t) == req.anonymizers.st = "val" /\ t \in DOMAIN req.anonymizers.val

HasConfigDefault(t) ==
    config.anonymization_config = "dict_defaults_dict" /\ t \in DOMAIN CfgDefaultOperators

ConfigDefault(t) == OperatorConfig("replace", [new_value |-> CfgDefaultOperators[t]])

Fallback(t) == OperatorConfig("replace", [new_value |-> "<" \o t \o ">"])

DetectedTypes == {ext.detected[i] : i \in 1..Len(ext.detected)}

\* C7 (as stated): the operator of each detected span is the request's entry
\* for its entity type if there is one, else the configuration's default for
\* it if there is one, else the fallback "<ENTITY_TYPE>".
C7_AsStated ==
    Anonymized
    => \A t \in DetectedTypes :
        EngineOperator(operators, t) =
            IF HasRequestEntry(t) THEN RequestOperator(t, req.anonymizers.val[t])
            ELSE IF HasConfigDefault(t) THEN ConfigDefault(t)
            ELSE Fallback(t)

\* C7 (amended): when the request supplies a non-empty anonymizers map, the
\* operator of each detected span is the request's entry for its entity type
\* if there is one, else the fallback "<ENTITY_TYPE>", the configuration's
\* defaults not being consulted; when the request supplies none (or an empty
\* one), it is the configuration's default for the entity type if there is
\* one, else the fallback.
C7_OperatorChoice ==
    Anonymized
    => \A t \in DetectedTypes :
        EngineOperator(operators, t) =
            IF Truthy(req.anonymizers)
            THEN IF HasRequestEntry(t) THEN RequestOperator(t, req.anonymizers.val[t])
                 ELSE Fallback(t)
            ELSE IF HasConfigDefault(t) THEN ConfigDefault(t)
                 ELSE Fallback(t)

\* An anonymization whose request has an entry for PERSON and none for
\* LOCATION, the configuration has a default for LOCATION, and spans of both
\* types were detected.
C7_Witness ==
    /\ Anonymized
    /\ HasRequestEntry("PERSON") /\ ~HasRequestEntry("LOCATION")
    /\ HasConfigDefault("LOCATION")
    /\ {"PERSON", "LOCATION"} \subseteq DetectedTypes

\* C8: both handlers pass the analyzer the request's entities when the
\* request supplies them, else the configuration's entities_to_detect when
\* set, else the list of eleven categories. Stated for requests whose
\* entities are absent or a non-empty list and configurations whose
\* entities_to_detect is absent or a list.
C8_EntitySet ==
    (/\ Responded
     /\ req.endpoint \in {"/analyze", "/anonymize"}
     /\ analyzer_entities.st # "not_called"
     /\ req.entities.st = "val" => req.entities.val # <<>>
     /\ config.entities_to_detect \in {"absent", "list"})
    => analyzer_entities =
         IF req.entities.st = "val" THEN req.entities
         ELSE IF config.entities_to_detect = "list" THEN Val(CfgEntities)
         ELSE Val(ANALYZE_DEFAULT_ENTITIES)

\* A request no part of which is wrong: a GET of / or /config, or a POST of
\* an object that holds text.
WellFormedRequest(r) ==
    \/ r.endpoint \in {"/", "/config"}
    \/ /\ r.endpoint \in {"/analyze", "/anonymize"}
       /\ r.is_json /\ r.json = "object" /\ r.has_text

\* C10: once construction has succeeded, no well-formed request to /,
\* /analyze, /anonymize or /config is answered with an error (the engines
\* not failing).
C10_NoConfigErrorAtRuntime ==
    (Responded /\ WellFormedRequest(req) /\ ext.raises = "")
    => resp.status = 200

\* ------------------------------------------------------------------------
\* The server run threaded: each request is handled in a thread of its own,
\* and the threads share self.config, self.analyzer (with the registered
\* recognizer and its label_mapping) and self.anonymizer. A step of a thread
\* is the part of its handler up to its next use of what is shared.

\* self.config after self.config.setdefault('entities_to_detect', default)
ConfigAfterSetdefault(cfg) ==
    IF cfg.entities_to_detect = "absent"
    THEN [cfg EXCEPT !.entities_to_detect = "list"]
    ELSE cfg

\* self.config after self.config.get(key, default): get leaves the dict as
\* it is.
ConfigAfterGet(cfg) == cfg

\* self.label_mapping after self.label_mapping.get(entity_type, entity_type)
LabelMappingAfterGet(mapping) == mapping

\* The default entity list of a POST handler
DefaultEntities(endpoint) ==
    IF endpoint = "/analyze" THEN ANALYZE_DEFAULT_ENTITIES
    ELSE ANONYMIZE_DEFAULT_ENTITIES

\* The prefix of error_msg in the except clause of a handler
ErrorPrefix(endpoint) ==
    IF endpoint = "/analyze" THEN "Analysis failed: "
    ELSE IF endpoint = "/anonymize" THEN "Anonymization failed: "
    ELSE IF endpoint = "/recognizers" THEN "Failed to get recognizers: "
    ELSE IF endpoint = "/supportedentities" THEN "Failed to get supported entities: "
    ELSE "Failed to get configuration: "

\* The configurations the threaded server is constructed with
ThreadedConfigs ==
    {ConfigFile("dict", RequiredNames, "list", etd, anon, "absent") :
        etd \in {"absent", "list"},
        anon \in {"absent", "str", "dict_defaults_dict"}}

\* The requests the threads are given
ThreadedRequests ==
    {Get(p) : p \in {"/", "/config", "/recognizers", "/supportedentities"}}
    \cup {Req("/analyze", FALSE, "none", FALSE, Absent, Absent),
          Req("/analyze", TRUE, "object", TRUE, Absent, Absent),
          Req("/analyze", TRUE, "object", TRUE, Val(<<"PERSON">>), Absent),
          Req("/anonymize", TRUE, "object", TRUE, Absent, Absent),
          Req("/anonymize", TRUE, "object", TRUE, Absent,
              Val([t \in {"PERSON"} |-> Entry("replace", "[ISIK]")]))}

\* What the analyzer engine does for a thread
ThreadedExt(endpoint) ==
    IF endpoint \in {"/analyze", "/anonymize"}
    THEN {Ext("", <<"PERSON", "LOCATION", "ORGANIZATION">>), Ext(E_EngineFailure, <<>>)}
    ELSE {Ext("", <<>>), Ext(E_EngineFailure, <<>>)}

\* The thread whose handler has ended as view says
Handled(th, view, e) ==
    Thread("done", th.req, IF view.called THEN e ELSE NoExt,
           view.analyzer_entities, view.operators, ErrorHandlers(view))

\* The server constructed and serving, every thread idle
InitThreaded ==
    /\ sv_phase = "serving" /\ cfg_file \in ThreadedConfigs /\ config = cfg_file
    /\ vc_out = validate_config(cfg_file)
    /\ prev = [endpoint |-> "none", resp |-> NoResp]
    /\ sv_pc = "idle" /\ req = NoReq /\ ext = NoExt /\ analyzer_entities = NotCalled
    /\ operators = <<>> /\ resp = NoResp
    /\ rc_pc = "idle" /\ rc_pipeline = [raised |-> FALSE, ner_results |-> <<>>]
    /\ rc_entities = {} /\ rc_out = [results |-> <<>>, propagated |-> FALSE]
    /\ threads = [t \in Threads |-> NoThread] /\ rc_label_mapping = label_mapping

\* A request arrives and is given to a thread.
Th_Dispatch ==
    \E t \in Threads, r \in ThreadedRequests :
        /\ threads[t].pc = "idle"
        /\ threads' = [threads EXCEPT ![t] = Thread("view", r, NoExt, NotCalled, <<>>, NoResp)]
        /\ UNCHANGED <<config, rc_label_mapping>>
        /\ UNCHANGED <<sv_phase, cfg_file, vc_out, sv_pc, req, ext,
                       analyzer_entities, operators, resp, prev>>
        /\ UNCHANGED rc_vars

\* analyze and anonymize from their start to entities_to_detect
Th_EntitiesToDetect ==
    \E t \in Threads :
        LET th == threads[t]
            p == ParseRequest(th.req)
        IN
        /\ th.pc = "view"
        /\ th.req.endpoint \in {"/analyze", "/anonymize"}
        /\ IF p.exc # ""
           THEN /\ threads' = [threads EXCEPT ![t] =
                       Handled(th, Caught(Raises(p.exc, FALSE, NotCalled),
                                          ErrorPrefix(th.req.endpoint)), NoExt)]
                /\ config' = config
           ELSE IF p.status # 0
           THEN /\ threads' = [threads EXCEPT ![t] =
                       Handled(th, Returns(Resp(p.status, p.error, ""),
                                           FALSE, NotCalled, <<>>), NoExt)]
                /\ config' = config
           ELSE /\ threads' = [threads EXCEPT ![t] =
                       Thread("analyzer", th.req, NoExt,
                              EntitiesToDetect(th.req.entities, config,
                                               DefaultEntities(th.req.endpoint)),
                              <<>>, NoResp)]
                /\ config' = IF Truthy(th.req.entities) THEN config
                             ELSE ConfigAfterGet(config)
        /\ UNCHANGED rc_label_mapping
        /\ UNCHANGED <<sv_phase, cfg_file, vc_out, sv_pc, req, ext,
                       analyzer_entities, operators, resp, prev>>
        /\ UNCHANGED rc_vars

\* self.analyzer.analyze(...), in which the registered recognizer looks its
\* labels up in label_mapping; analyze then returns its response.
Th_AnalyzerCall ==
    \E t \in Threads :
        LET th == threads[t] IN
        /\ th.pc = "analyzer"
        /\ \E e \in ThreadedExt(th.req.endpoint) :
            threads' = [threads EXCEPT ![t] =
                IF e.raises # ""
                THEN Handled(th, Caught(Raises(e.raises, TRUE, th.analyzer_entities),
                                        ErrorPrefix(th.req.endpoint)), e)
                ELSE IF th.req.endpoint = "/analyze"
                THEN Handled(th, Returns(Resp(200, "", ""), TRUE,
                                         th.analyzer_entities, <<>>), e)
                ELSE Thread("operators", th.req, e, th.analyzer_entities, <<>>, NoResp)]
        /\ rc_label_mapping' = LabelMappingAfterGet(rc_label_mapping)
        /\ UNCHANGED config
        /\ UNCHANGED <<sv_phase, cfg_file, vc_out, sv_pc, req, ext,
                       analyzer_entities, operators, resp, prev>>
        /\ UNCHANGED rc_vars

\* anonymize from "Setup anonymization operators" to its response
Th_SetupOperators ==
    \E t \in Threads :
        LET th == threads[t]
            b == BuildOperators(th.req.anonymizers, config)
        IN
        /\ th.pc = "operators"
        /\ threads' = [threads EXCEPT ![t] =
                IF b.exc # ""
                THEN Handled(th, Caught(Raises(b.exc, TRUE, th.analyzer_entities),
                                        ErrorPrefix(th.req.endpoint)), th.ext)
                ELSE Handled(th, Returns(Resp(200, "", ""), TRUE,
                                         th.analyzer_entities, b.operators), th.ext)]
        /\ config' = IF Truthy(th.req.anonymizers) THEN config
                     ELSE ConfigAfterGet(config)
        /\ UNCHANGED rc_label_mapping
        /\ UNCHANGED <<sv_phase, cfg_file, vc_out, sv_pc, req, ext,
                       analyzer_entities, operators, resp, prev>>
        /\ UNCHANGED rc_vars

\* health_check and get_configuration
Th_ReadConfig ==
    \E t \in Threads :
        LET th == threads[t] IN
        /\ th.pc = "view"
        /\ th.req.endpoint \in {"/", "/config"}
        /\ threads' = [threads EXCEPT ![t] =
                IF th.req.endpoint = "/"
                THEN Handled(th, HealthCheckView(config), NoExt)
                ELSE Handled(th, Caught(GetConfigurationView(config),
                                        ErrorPrefix(th.req.endpoint)), NoExt)]
        /\ config' = ConfigAfterGet(config)
        /\ UNCHANGED rc_label_mapping
        /\ UNCHANGED <<sv_phase, cfg_file, vc_out, sv_pc, req, ext,
                       analyzer_entities, operators, resp, prev>>
        /\ UNCHANGED rc_vars

\* recognizers and supported_entities
Th_ReadRegistry ==
    \E t \in Threads :
        LET th == threads[t] IN
        /\ th.pc = "view"
        /\ th.req.endpoint \in {"/recognizers", "/supportedentities"}
        /\ \E e \in ThreadedExt(th.req.endpoint) :
            threads' = [threads EXCEPT ![t] =
                Handled(th, Caught(RegistryView(e), ErrorPrefix(th.req.endpoint)), e)]
        /\ UNCHANGED <<config, rc_label_mapping>>
        /\ UNCHANGED <<sv_phase, cfg_file, vc_out, sv_pc, req, ext,
                       analyzer_entities, operators, resp, prev>>
        /\ UNCHANGED rc_vars

\* The response is sent and the thread ends.
Th_Send ==
    \E t \in Threads :
        /\ threads[t].pc = "done"
        /\ threads' = [threads EXCEPT ![t] = NoThread]
        /\ UNCHANGED <<config, rc_label_mapping>>
        /\ UNCHANGED <<sv_phase, cfg_file, vc_out, sv_pc, req, ext,
                       analyzer_entities, operators, resp, prev>>
        /\ UNCHANGED rc_vars

ThNext ==
    \/ Th_Dispatch
    \/ Th_EntitiesToDetect
    \/ Th_AnalyzerCall
    \/ Th_SetupOperators
    \/ Th_ReadConfig
    \/ Th_ReadRegistry
    \/ Th_Send

\* ------------------------------------------------------------------------
\* Claims about the threaded server

\* What the handler of request r does when it runs from start to end with
\* no other request in flight, the configuration being cfg and the analyzer
\* engine doing e.
HandledAlone(r, cfg, e) ==
    IF r.endpoint = "/" THEN HealthCheckView(cfg)
    ELSE IF r.endpoint = "/config"
    THEN Caught(GetConfigurationView(cfg), "Failed to get configuration: ")
    ELSE IF r.endpoint = "/analyze"
    THEN Caught(AnalyzeView(r, cfg, e), "Analysis failed: ")
    ELSE IF r.endpoint = "/anonymize"
    THEN Caught(AnonymizeView(r, cfg, e), "Anonymization failed: ")
    ELSE IF r.endpoint = "/recognizers"
    THEN Caught(RegistryView(e), "Failed to get recognizers: ")
    ELSE Caught(RegistryView(e), "Failed to get supported entities: ")

\* C12: under any interleaving of the threads' handlers, the configuration
\* is the configuration loaded at startup and label_mapping is as it was
\* constructed (no handler writes them), and the response of each request,
\* with what its handler passed to the engines, is what the request gets
\* when it is handled alone with that configuration, the engines doing the
\* same for it.
C12_HandlersIndependent ==
    /\ config = cfg_file
    /\ rc_label_mapping = label_mapping
    /\ \A t \in Threads :
        threads[t].pc = "done"
        => LET alone == HandledAlone(threads[t].req, cfg_file, threads[t].ext) IN
           /\ threads[t].resp = ErrorHandlers(alone)
           /\ threads[t].analyzer_entities = alone.analyzer_entities
           /\ threads[t].operators = alone.operators

\* Two requests in flight at once: an anonymization that has built its
\* operators from the configuration's defaults and is answered 200, while
\* the handler of an analysis that took its entities from the configuration
\* is between its steps.
C12_Witness ==
    \E t, u \in Threads :
        /\ t # u
        /\ threads[t].pc = "done" /\ threads[t].req.endpoint = "/anonymize"
        /\ threads[t].resp.status = 200
        /\ ~Truthy(threads[t].req.anonymizers)
        /\ DOMAIN threads[t].operators # {}
        /\ threads[u].pc = "analyzer" /\ threads[u].req.endpoint = "/analyze"
        /\ ~Truthy(threads[u].req.entities)

RcNext == RecognizerAnalyze \/ RecognizerReturn

\* The recognizer constructed and idle, no server constructed
InitRecognizer ==
    /\ rc_pc = "idle" /\ rc_pipeline = [raised |-> FALSE, ner_results |-> <<>>]
    /\ rc_entities = {} /\ rc_out = [results |-> <<>>, propagated |-> FALSE]
    /\ sv_phase = "start" /\ cfg_file = PlainFile("missing", {}) /\ config = NoConfig
    /\ vc_out = NotValidated /\ prev = [endpoint |-> "none", resp |-> NoResp]
    /\ sv_pc = "idle" /\ req = NoReq /\ ext = NoExt /\ analyzer_entities = NotCalled
    /\ operators = <<>> /\ resp = NoResp
    /\ threads = [t \in Threads |-> NoThread] /\ rc_label_mapping = label_mapping

\* ------------------------------------------------------------------------
\* Specifications

\* The recognizer alone
SpecRecognizer == InitRecognizer /\ [][RcNext]_vars

\* The server alone
SpecServer == InitServer /\ [][SvNext]_vars

\* The server run threaded
SpecThreaded == InitThreaded /\ [][ThNext]_vars

====
